---- MODULE Spec2Model ----
(***************************************************************************)
(* A model of KATOFileSorter (src/ephu_final/kato_sorter.py) and of the    *)
(* entry point (src/ephu_final/main.py).                                   *)
(*                                                                         *)
(* Text.  A Python str is a sequence of tokens.  A token is either one     *)
(* character that the code inspects on its own (a decimal digit, a blank,  *)
(* "-", "_", ".", "/") or a run of letters that the code only compares or  *)
(* searches as a whole ("kato", "Prilozhenie", "xlsx", ...).  Stripping,   *)
(* slicing ([:6], [:2]), isdigit, lower, the regular expressions and the   *)
(* formatting of numbers are computed on these sequences, so a root, a     *)
(* label or a suffixed column name is built and re-read as the code builds *)
(* and re-reads it.  In code values every token is one character.          *)
(*                                                                         *)
(* TLA+ strings are ASCII, so the Cyrillic literals of the source are      *)
(* written in Latin letters: "KATO_cyr" is the Cyrillic КАТО of line 181   *)
(* (lower case "kato_cyr"), "kato_mix" is the literal of line 153, whose   *)
(* second letter is a Latin a, "Prilozhenie" is Приложение,                *)
(* "kato_faily" is като_файлы, "itogovye_faily" is итоговые_файлы,         *)
(* "Prochee" is Прочее, and the region names are transliterated.           *)
(*                                                                         *)
(* Left out.  Of a written sheet the model keeps the rows, the merged      *)
(* ranges and which rows are bold and centered; the column widths (lines   *)
(* 244-254), the font size and the left alignment of row 1 are not kept.   *)
(* An empty cell written to a workbook is read back as an empty cell.  A   *)
(* folder that shutil.rmtree fails to remove (line 98) stays as it was.    *)
(***************************************************************************)
EXTENDS Integers, Sequences, FiniteSets, TLC

\* ------------------------------------------------------------------ bounds
\* Longest list of column names handed to make_unique_columns on its own.
MaxCols == 4
\* Most input files (besides earlier output) in the working directory.
MaxFiles == 2
\* Most calls of process_files on one sorter.
MaxProcess == 2
\* Most calls of save_kato_files on one sorter.
MaxSave == 2
\* Most sorters constructed (program runs) over one working directory.
MaxRuns == 2

\* ------------------------------------------------------------------ text
DigitToks == <<"0", "1", "2", "3", "4", "5", "6", "7", "8", "9">>
Digits == {DigitToks[i] : i \in 1..10}
IsDigitTok(t) == t \in Digits
DigitVal(t) == (CHOOSE i \in 1..10 : DigitToks[i] = t) - 1

\* str(n) for a natural number n
RECURSIVE IntToStr(_)
IntToStr(n) ==
    IF n < 10 THEN <<DigitToks[n + 1]>>
    ELSE Append(IntToStr(n \div 10), DigitToks[(n % 10) + 1])

\* int(s) for a string of decimal digits
RECURSIVE StrToInt(_)
StrToInt(s) ==
    IF s = <<>> THEN 0
    ELSE 10 * StrToInt(SubSeq(s, 1, Len(s) - 1)) + DigitVal(s[Len(s)])

\* str.lower(), token by token
LowerTok(t) ==
    CASE t = "KATO" -> "kato"
      [] t = "KATO_cyr" -> "kato_cyr"
      [] t = "Kod" -> "kod"
      [] t = "Prilozhenie" -> "prilozhenie"
      [] t = "XLSX" -> "xlsx"
      [] t = "Kato_faily" -> "kato_faily"
      [] t = "Unnamed" -> "unnamed"
      [] t = "FILT" -> "filt"
      [] t = "A" -> "a"
      [] t = "B" -> "b"
      [] OTHER -> t
Lower(s) == [i \in 1..Len(s) |-> LowerTok(s[i])]

\* str.strip(): leading and trailing blanks removed
RECURSIVE LStrip(_)
LStrip(s) == IF s # <<>> /\ s[1] = " " THEN LStrip(Tail(s)) ELSE s
RECURSIVE RStrip(_)
RStrip(s) ==
    IF s # <<>> /\ s[Len(s)] = " " THEN RStrip(SubSeq(s, 1, Len(s) - 1)) ELSE s
Strip(s) == RStrip(LStrip(s))

\* s[:n]
Prefix(s, n) == SubSeq(s, 1, IF Len(s) < n THEN Len(s) ELSE n)
\* str.isdigit(): not empty and every character a digit
isdigit(s) == s # <<>> /\ \A i \in 1..Len(s) : IsDigitTok(s[i])
\* tok in s, for a token the code searches as a whole
Contains(s, tok) == \E i \in 1..Len(s) : s[i] = tok
\* s.startswith(p), s.endswith(p)
StartsWith(s, p) == Len(s) >= Len(p) /\ SubSeq(s, 1, Len(p)) = p
EndsWith(s, p) ==
    Len(s) >= Len(p) /\ SubSeq(s, Len(s) - Len(p) + 1, Len(s)) = p

\* ------------------------------------------------- KATOFileSorter: pure parts
\* make_unique_columns: seen maps a stripped name to the number of repeats so far
RECURSIVE MakeUniqueFrom(_, _, _, _)
MakeUniqueFrom(columns, i, seen, new_columns) ==
    IF i > Len(columns) THEN new_columns
    ELSE LET col == Strip(columns[i]) IN
         IF col \in DOMAIN seen
         THEN MakeUniqueFrom(columns, i + 1,
                  [seen EXCEPT ![col] = seen[col] + 1],
                  Append(new_columns, col \o <<"_">> \o IntToStr(seen[col] + 1)))
         ELSE MakeUniqueFrom(columns, i + 1, seen @@ (col :> 0),
                  Append(new_columns, col))

make_unique_columns(columns) == MakeUniqueFrom(columns, 1, <<>>, <<>>)

\* re.search(r'(\d{1,2})', name): the first digit and, if a digit follows it,
\* that one too; 9999 when the name holds no digit
extract_app_number(name) ==
    IF \E i \in 1..Len(name) : IsDigitTok(name[i])
    THEN LET i == CHOOSE k \in 1..Len(name) :
                     /\ IsDigitTok(name[k])
                     /\ \A j \in 1..(k - 1) : ~IsDigitTok(name[j])
         IN IF i < Len(name) /\ IsDigitTok(name[i + 1])
            THEN StrToInt(SubSeq(name, i, i + 1))
            ELSE StrToInt(<<name[i]>>)
    ELSE 9999

\* REGION_CODES, keyed by the two-character prefix
REGION_CODES ==
    (<<"1", "1">> :> "Akmolinskaya") @@ (<<"1", "5">> :> "Aktyubinskaya") @@
    (<<"1", "9">> :> "Almatinskaya") @@ (<<"2", "3">> :> "Atyrauskaya") @@
    (<<"6", "3">> :> "Vostochno-Kazakhstanskaya") @@ (<<"7", "1">> :> "Astana") @@
    (<<"7", "5">> :> "Almaty") @@ (<<"7", "9">> :> "Shymkent") @@
    (<<"3", "1">> :> "Zhambylskaya") @@ (<<"2", "7">> :> "Zapadno-Kazakhstanskaya") @@
    (<<"3", "5">> :> "Karagandinskaya") @@ (<<"3", "9">> :> "Kostanayskaya") @@
    (<<"4", "3">> :> "Kyzylordisnkaya") @@ (<<"4", "7">> :> "Mangistauskaya") @@
    (<<"1", "0">> :> "oblast Abay") @@ (<<"3", "3">> :> "oblast Zhetisu") @@
    (<<"6", "2">> :> "oblast Ulytau") @@ (<<"5", "5">> :> "Pavlodarskaya") @@
    (<<"5", "9">> :> "Severo-Kazakhstanskaya") @@ (<<"6", "1">> :> "Turkestanskaya")

\* get_region_folder looking up the whole code instead of kato_code[:2]
get_region_folder_whole(kato_code) ==
    IF kato_code \in DOMAIN REGION_CODES
    THEN REGION_CODES[kato_code]
    ELSE "Prochee"

get_region_folder(kato_code) ==
    LET region_prefix == Prefix(kato_code, 2) IN
    IF region_prefix \in DOMAIN REGION_CODES
    THEN REGION_CODES[region_prefix]
    ELSE "Prochee"

\* ------------------------------------------------------------ cells, sheets
\* A missing cell (pandas NaN); every other cell is a str.
NaN == <<"#NaN">>
notna(cell) == cell # NaN
\* str(cell)
str(cell) == IF cell = NaN THEN <<"nan">> ELSE cell

Max(S) == CHOOSE x \in S : \A y \in S : y <= x
\* A sheet is read as a rectangle: short rows are padded with missing cells.
Width(rows) == IF rows = <<>> THEN 0 ELSE Max({Len(rows[r]) : r \in 1..Len(rows)})
CellAt(row, c) == IF c <= Len(row) THEN row[c] ELSE NaN
Pad(row, w) == [c \in 1..w |-> CellAt(row, c)]

RECURSIVE SelectIdx(_, _, _)
\* the indexes i of s, in order, with keep[i]
SelectIdx(n, keep, i) ==
    IF i > n THEN <<>>
    ELSE (IF keep[i] THEN <<i>> ELSE <<>>) \o SelectIdx(n, keep, i + 1)

\* ' '.join(parts)
RECURSIVE Join(_, _)
Join(parts, sep) ==
    IF parts = <<>> THEN <<>>
    ELSE IF Len(parts) = 1 THEN parts[1]
    ELSE parts[1] \o sep \o Join(Tail(parts), sep)

\* ' '.join([str(cell) for cell in row if pd.notna(cell)])     (lines 150, 164)
JoinRow(row) ==
    LET keep == [c \in 1..Len(row) |-> notna(row[c])]
        idx == SelectIdx(Len(row), keep, 1)
    IN Join([k \in 1..Len(idx) |-> str(row[idx[k]])], <<" ">>)

\* re.search(r'(\d{1,2})[- ]*(...|kosymsha|...)', line): a digit, then only
\* "-" and blanks, then one of the three words               (line 151)
AppWords == {"kosymsha_kaz", "kosymsha", "prilozhenie"}
IsAppLine(line) ==
    \E i \in 1..Len(line) : \E j \in (i + 1)..Len(line) :
        /\ IsDigitTok(line[i])
        /\ line[j] \in AppWords
        /\ \A k \in (i + 1)..(j - 1) : line[k] \in {"-", " "}

\* line 153: a cell holding the mixed-script literal or "kato", in lower case
IsHeaderRow(row) ==
    \E c \in 1..Len(row) :
        \/ Contains(Lower(str(row[c])), "kato_mix")
        \/ Contains(Lower(str(row[c])), "kato")

\* The first index of 1..n that satisfies ok, 0 for None.
FirstIdx(n, ok) ==
    IF \E i \in 1..n : ok[i]
    THEN CHOOSE i \in 1..n : ok[i] /\ \A j \in 1..(i - 1) : ~ok[j]
    ELSE 0

\* pd.read_excel(file_path, header=None, nrows=15)             (line 145)
PreviewRows == 15
Preview(rows) ==
    LET w == Width(rows)
        n == IF Len(rows) < PreviewRows THEN Len(rows) ELSE PreviewRows
    IN [r \in 1..n |-> Pad(rows[r], w)]

\* lines 146-156; rows are numbered from 1 here, 0 is None
app_idx(preview) ==
    FirstIdx(Len(preview),
             [i \in 1..Len(preview) |-> IsAppLine(Lower(JoinRow(preview[i])))])
header_idx(preview) ==
    FirstIdx(Len(preview), [i \in 1..Len(preview) |-> IsHeaderRow(preview[i])])

\* --------------------------------------------------------- reading a table
\* pandas names a header cell that is empty "Unnamed: <column>".
Unnamed(c) == <<"Unnamed", ":", " ">> \o IntToStr(c - 1)
UnnamedLevel(c, l) == Unnamed(c) \o <<"_", "level", "_">> \o IntToStr(l - 1)

\* pandas renames a repeated header name: its k-th repeat becomes name.k
RECURSIVE MangleFrom(_, _, _, _)
MangleFrom(names, i, counts, out) ==
    IF i > Len(names) THEN out
    ELSE LET col == names[i] IN
         IF col \in DOMAIN counts
         THEN MangleFrom(names, i + 1, [counts EXCEPT ![col] = counts[col] + 1],
                         Append(out, col \o <<".">> \o IntToStr(counts[col])))
         ELSE MangleFrom(names, i + 1, counts @@ (col :> 1), Append(out, col))
MangleDupes(names) == MangleFrom(names, 1, <<>>, <<>>)

\* pd.read_excel(file_path, header=header_idx, dtype=str) and line 166: the
\* header row h gives the column names, the rows under it the body
ReadSingleHeader(rows, h) ==
    LET w == Width(rows)
        head == Pad(rows[h], w)
        names == MangleDupes([c \in 1..w |->
                     IF notna(head[c]) THEN head[c] ELSE Unnamed(c)])
    IN [columns |-> make_unique_columns([c \in 1..w |-> str(names[c])]),
        rows |-> [r \in 1..(Len(rows) - h) |-> Pad(rows[h + r], w)]]

\* pandas fill_mi_header: an empty cell of a header row takes the value to its
\* left while control_row allows it
RECURSIVE FillMiFrom(_, _, _, _)
FillMiFrom(row, control_row, i, last) ==
    IF i > Len(row) THEN [row |-> row, control_row |-> control_row]
    ELSE LET l == IF ~control_row[i] THEN row[i] ELSE last IN
         IF row[i] = NaN
         THEN FillMiFrom([row EXCEPT ![i] = l], control_row, i + 1, l)
         ELSE FillMiFrom(row, [control_row EXCEPT ![i] = FALSE], i + 1, row[i])
fill_mi_header(row, control_row) ==
    IF row = <<>> THEN [row |-> row, control_row |-> control_row]
    ELSE FillMiFrom(row, control_row, 2, row[1])

\* combine_column                                              (lines 115-117)
combine_column(col_tuple) ==
    LET keep == [k \in 1..Len(col_tuple) |->
                    /\ Lower(Strip(str(col_tuple[k]))) # <<"nan">>
                    /\ ~Contains(str(col_tuple[k]), "Unnamed")]
        idx == SelectIdx(Len(col_tuple), keep, 1)
    IN Join([k \in 1..Len(idx) |-> Strip(str(col_tuple[idx[k]]))],
            <<" ", "/", " ">>)

\* pd.read_excel(file_path, header=[1, 2, 3], dtype=str) and lines 173-174;
\* the caller has checked that the sheet has the four rows this needs
ReadMultiHeader(rows) ==
    LET w == Width(rows)
        h1 == fill_mi_header(Pad(rows[2], w), [c \in 1..w |-> TRUE])
        h2 == fill_mi_header(Pad(rows[3], w), h1.control_row)
        h3 == fill_mi_header(Pad(rows[4], w), h2.control_row)
        level(r, c, l) == IF notna(r[c]) THEN r[c] ELSE UnnamedLevel(c, l)
        tuples == [c \in 1..w |->
                      <<level(h1.row, c, 1), level(h2.row, c, 2), level(h3.row, c, 3)>>]
    IN [columns |-> make_unique_columns([c \in 1..w |-> combine_column(tuples[c])]),
        rows |-> [r \in 1..(Len(rows) - 4) |-> Pad(rows[4 + r], w)]]

\* ------------------------------------------------- process_files: one file
\* f"Приложение-{app_number}"                                  (line 159)
AppTitle(app_number) == <<"Prilozhenie", "-">> \o IntToStr(app_number)

\* line 176: df.dropna(how='all')
DropAllNaN(rows) ==
    LET keep == [r \in 1..Len(rows) |-> \E c \in 1..Len(rows[r]) : notna(rows[r][c])]
        idx == SelectIdx(Len(rows), keep, 1)
    IN [k \in 1..Len(idx) |-> rows[idx[k]]]

\* line 177: rows whose every cell is a placeholder are dropped
Placeholders == {<<"filt">>, <<"nan">>, <<"none">>, <<>>}
DropPlaceholders(rows) ==
    LET keep == [r \in 1..Len(rows) |->
                    ~(\A c \in 1..Len(rows[r]) :
                          Lower(Strip(str(rows[r][c]))) \in Placeholders)]
        idx == SelectIdx(Len(rows), keep, 1)
    IN [k \in 1..Len(idx) |-> rows[idx[k]]]

\* lines 179-187: the position of kato_col in df.columns, 0 when the file has
\* no such column
KatoCol(columns) ==
    LET byLower == [c \in 1..Len(columns) |-> Contains(Lower(columns[c]), "kato")]
        byUpper == [c \in 1..Len(columns) |-> Contains(columns[c], "KATO_cyr")]
    IN IF FirstIdx(Len(columns), byLower) # 0
       THEN FirstIdx(Len(columns), byLower)
       ELSE FirstIdx(Len(columns), byUpper)

\* lines 188-189: the code column as stripped text, rows with an empty code
\* dropped
StripCodes(rows, k) ==
    LET val == [r \in 1..Len(rows) |-> Strip(str(rows[r][k]))]
        keep == [r \in 1..Len(rows) |-> notna(val[r]) /\ Strip(val[r]) # <<>>]
        idx == SelectIdx(Len(rows), keep, 1)
    IN [j \in 1..Len(idx) |-> [rows[idx[j]] EXCEPT ![k] = val[idx[j]]]]

\* line 190 with [:5] for [:6]
kato_root5(row, k) == Prefix(row[k], 5)
\* line 190
kato_root(row, k) == Prefix(row[k], 6)

\* The order of Python's str on strings of digits.
RECURSIVE StrLess(_, _)
StrLess(a, b) ==
    IF a = <<>> THEN b # <<>>
    ELSE IF b = <<>> THEN FALSE
    ELSE IF a[1] = b[1] THEN StrLess(Tail(a), Tail(b))
    ELSE DigitVal(a[1]) < DigitVal(b[1])

RECURSIVE SortRoots(_)
SortRoots(S) ==
    IF S = {} THEN <<>>
    ELSE LET m == CHOOSE x \in S : \A y \in S \ {x} : StrLess(x, y)
         IN <<m>> \o SortRoots(S \ {m})

\* line 192: df.groupby('kato_root') yields the groups in the order of their
\* keys, each with its rows in the order of the file.  Only the groups whose
\* key passes line 193 are listed: the others are passed over wherever they
\* come in that order.
Groups(rows, k) ==
    LET roots == {kato_root(rows[r], k) : r \in 1..Len(rows)}
        keys == SortRoots({x \in roots : isdigit(x)})
        of(key) == SelectIdx(Len(rows),
                       [r \in 1..Len(rows) |-> kato_root(rows[r], k) = key], 1)
    IN [g \in 1..Len(keys) |->
           [kato_root |-> keys[g],
            rows |-> [j \in 1..Len(of(keys[g])) |-> rows[of(keys[g])[j]]]]]

\* Lines 145-190 for one file: what the try block has computed when it enters
\* the loop of line 192, or how it left before.
\*   "error": an exception reached line 205 (the file is no workbook; the
\*            sheet is empty, line 170; the sheet is too short for the three
\*            header rows, line 172; kato_col names two columns, line 188)
\*   "nocol": the continue of line 184
Extract(file) ==
    LET rows == file.book[1].rows
        preview == Preview(rows)
        a == app_idx(preview)
        h == header_idx(preview)
        app_title == AppTitle(extract_app_number(file.name))
        none == [outcome |-> "error", app_title |-> app_title,
                 title_row |-> app_title, columns |-> <<>>, groups |-> <<>>]
    IN IF ~file.ok THEN none
       ELSE IF h = 0 /\ Len(rows) < 4 THEN none
       ELSE
       LET title_row == IF h # 0
                        THEN IF a # 0 /\ a + 1 < h
                             THEN JoinRow(preview[a + 1])
                             ELSE app_title
                        ELSE str(CellAt(rows[1], 1))
           df == IF h # 0 THEN ReadSingleHeader(rows, h) ELSE ReadMultiHeader(rows)
           body == DropPlaceholders(DropAllNaN(df.rows))
           k == KatoCol(df.columns)
       IN IF k = 0 THEN [none EXCEPT !.outcome = "nocol"]
          ELSE IF \E c \in 1..Len(df.columns) : c # k /\ df.columns[c] = df.columns[k]
          THEN none
          ELSE [outcome |-> "ok", app_title |-> app_title, title_row |-> title_row,
                columns |-> df.columns, groups |-> Groups(StripCodes(body, k), k)]

\* ------------------------------------------------------------ the file tree
\* A file of the working directory: dir is the path of its folder below
\* input_dir ('.', main.py line 4), name its base name, ok whether it is a
\* workbook that pd.read_excel opens, book its sheets.  A sheet has its rows
\* and, for a sheet written by save_kato_files, its formatting: bold and
\* center are sets of cells <<row, column>>, merged a set of ranges
\* <<row, first column, last column>>.
Sheet(title, rows) ==
    [title |-> title, rows |-> rows, bold |-> {}, center |-> {}, merged |-> {}]
InputFile(dir, name, ok, rows) ==
    [dir |-> dir, name |-> name, ok |-> ok, book |-> <<Sheet(<<"Sheet">>, rows)>>]

C711234 == <<"7", "1", "1", "2", "3", "4">>
C991234 == <<"9", "9", "1", "2", "3", "4">>
C751234 == <<"7", "5", "1", "2", "3", "4">>

\* an application row, a title row, the header, two rows of one code root
GridA ==
    << <<<<"1", "-", "Prilozhenie">>>>,
       <<<<"Otchet">>>>,
       <<<<"KATO">>, <<"name">>>>,
       <<C711234, <<"a">>>>,
       <<<<" ">> \o C711234 \o <<"9", " ">>, <<"b">>>> >>
\* the header in the first row, two code roots and a code that is no number
GridB ==
    << <<<<"KATO">>, <<"name">>>>,
       <<C711234, <<"a">>>>,
       <<C991234, <<"b">>>>,
       <<<<"7", "1", "x">>, <<"c">>>> >>
\* codes that are blank, missing, not numeric, short, and one good code; an
\* empty row and a row of placeholders
GridC ==
    << <<<<"name">>, <<"kato">>>>,
       <<<<"a">>, <<" ", " ">>>>,
       <<<<"b">>, NaN>>,
       <<<<"c">>, <<"7", "1", "x", "2", "3", "4">>>>,
       <<<<"d">>, <<"1", "2", "3">>>>,
       <<<<"e">>, C711234>>,
       <<NaN, NaN>>,
       <<<<"FILT">>, NaN>> >>
\* three header rows without a code column
GridD ==
    << <<<<"Otchet">>>>,
       <<<<"Kod">>, <<"name">>>>,
       <<<<"x">>, <<"y">>>>,
       <<<<"p">>, <<"q">>>>,
       <<C711234, <<"a">>>> >>
\* three header rows, the code column marked in Cyrillic capitals
GridE ==
    << <<<<"Otchet">>>>,
       <<<<"KATO_cyr">>, <<"Data">>>>,
       <<<<"Kod">>, NaN>>,
       <<<<"n">>, <<"m">>>>,
       <<C751234, <<"a">>>> >>
\* one header row in Cyrillic capitals, which line 153 does not recognise,
\* and too few rows for three header rows
GridF ==
    << <<<<"KATO_cyr">>, <<"name">>>>,
       <<C711234, <<"a">>>> >>
\* the code of kato_skip_list
GridS ==
    << <<<<"KATO">>, <<"name">>>>,
       <<<<"2", "5", "0", "2", "2", "0", "2", "5">>, <<"a">>>> >>
\* header names that make_unique_columns leaves repeated
GridDup ==
    << <<<<"kato", "_", "1">>, <<"kato">>, <<" ", "kato">>>>,
       <<C711234, C711234, <<"x">>>> >>

Xlsx(stem) == stem \o <<".", "xlsx">>
Pool ==
    { InputFile(<<>>, Xlsx(<<"1">>), TRUE, GridA),
      InputFile(<<<<"sub">>>>, Xlsx(<<"1">>), TRUE, GridB),
      InputFile(<<>>, Xlsx(<<"9", "9">>), TRUE, GridB),
      InputFile(<<>>, Xlsx(<<"a">>), TRUE, GridC),
      InputFile(<<>>, <<"1", "b", ".", "XLSX">>, TRUE, GridB),
      InputFile(<<>>, Xlsx(<<"2">>), TRUE, GridD),
      InputFile(<<>>, Xlsx(<<"3">>), FALSE, <<>>),
      InputFile(<<>>, Xlsx(<<"4">>), TRUE, GridE),
      InputFile(<<>>, Xlsx(<<"5">>), TRUE, GridF),
      InputFile(<<>>, Xlsx(<<"6">>), TRUE, GridS),
      InputFile(<<<<"Kato_faily", "_", "old">>>>, Xlsx(<<"7">>), TRUE, GridB),
      InputFile(<<>>, <<"notes", ".", "txt">>, FALSE, <<>>),
      InputFile(<<>>, Xlsx(<<"8">>), TRUE, GridDup) }

\* The working directories the program is started in: at most MaxFiles files
\* of the pool.
Trees == {S \in SUBSET Pool : Cardinality(S) <= MaxFiles}

FileId(f) == <<f.dir, f.name>>
FileAt(tree, id) == CHOOSE f \in tree : FileId(f) = id

\* ------------------------------------------------------------------- state
VARIABLES
    fs,                  \* the files of the working directory
    runs,                \* how many sorters have been constructed
    main_pc,             \* the line of main.py about to run (0: no script)
    pc,                  \* "none", "idle", "process" or "save"
    kato_data,           \* insertion-ordered: <<[code, apps: <<[app, entries]>>]>>
    kato_skip_list,
    already_saved_kato,
    added_entries,
    all_excel_files,     \* process_files: the list of line 137, as file ids
    file_i,              \* process_files: the position of the loop of line 140
    save_i,              \* save_kato_files: the position of the loop of line 209
    nprocess,            \* calls of process_files on this sorter
    nsave,               \* calls of save_kato_files on this sorter
    handled,             \* history: per file of this call of process_files, what happened
    prev_data,           \* history: kato_data of the sorter before this one
    saved,               \* history: the wb.save calls of this sorter
    columns,             \* make_unique_columns on its own: the argument
    new_columns          \* make_unique_columns on its own: the result

sorter == <<kato_data, kato_skip_list, already_saved_kato, added_entries>>
loops == <<all_excel_files, file_i, save_i>>
hist == <<handled, saved, prev_data>>
pure == <<columns, new_columns>>
vars == <<fs, runs, main_pc, pc, sorter, loops, nprocess, nsave, hist, pure>>

output_dir == <<"itogovye_faily">>

\* ---------------------------------------------------------------- __init__
\* lines 79-86 (os.makedirs makes a folder and no file)
NoSorter ==
    /\ kato_data = <<>>
    /\ kato_skip_list = {<<"2", "5", "0", "2", "2", "0", "2", "5">>}
    /\ already_saved_kato = {}
    /\ added_entries = {}
    /\ all_excel_files = <<>>
    /\ file_i = 0
    /\ save_i = 0
    /\ nprocess = 0
    /\ nsave = 0
    /\ handled = <<>>
    /\ saved = <<>>
    /\ prev_data = <<>>

Construct ==
    /\ pc \in {"none", "idle"}
    /\ runs < MaxRuns
    /\ runs' = runs + 1
    /\ pc' = "idle"
    /\ kato_data' = <<>>
    /\ kato_skip_list' = {<<"2", "5", "0", "2", "2", "0", "2", "5">>}
    /\ already_saved_kato' = {}
    /\ added_entries' = {}
    /\ all_excel_files' = <<>>
    /\ file_i' = 0
    /\ save_i' = 0
    /\ nprocess' = 0
    /\ nsave' = 0
    /\ handled' = <<>>
    /\ saved' = <<>>
    /\ prev_data' = kato_data
    /\ UNCHANGED <<fs, pure>>

\* --------------------------------------------------- delete_kato_subfolders
\* line 92
IsKatoFolder(d) == StartsWith(Lower(d), <<"kato_faily">>)
\* The folders os.walk meets that line 92 selects: the paths, below
\* input_dir, that end in such a folder.
KatoFolders(tree) ==
    {p \in UNION {{SubSeq(f.dir, 1, n) : n \in 1..Len(f.dir)} : f \in tree} :
        IsKatoFolder(p[Len(p)])}
Under(f, p) == Len(f.dir) >= Len(p) /\ SubSeq(f.dir, 1, Len(p)) = p
\* lines 88-100: every selected folder is removed with what it holds, except
\* those whose shutil.rmtree raises (line 98), which stay as they are
AfterDelete(tree, failed) ==
    {f \in tree : \A p \in KatoFolders(tree) \ failed : ~Under(f, p)}

delete_kato_subfolders ==
    /\ pc = "idle"
    /\ \E failed \in SUBSET KatoFolders(fs) : fs' = AfterDelete(fs, failed)
    /\ UNCHANGED <<runs, pc, sorter, loops, nprocess, nsave, hist, pure>>

\* ---------------------------------------------------------- get_excel_files
\* line 131
IsExcelName(name) == EndsWith(Lower(name), <<".", "xlsx">>)

RECURSIVE Perms(_)
Perms(S) ==
    IF S = {} THEN {<<>>}
    ELSE UNION {{<<x>> \o p : p \in Perms(S \ {x})} : x \in S}

\* The orders in which os.walk can list the files: a folder's files in any
\* order, all of them before the files of its subfolders, and each
\* subfolder's tree in one piece.
IsProperPrefix(p, q) == Len(p) < Len(q) /\ SubSeq(q, 1, Len(p)) = p
IsPrefix(p, q) == Len(p) <= Len(q) /\ SubSeq(q, 1, Len(p)) = p
IsWalkOrder(s) ==
    /\ \A i, j \in 1..Len(s) : IsProperPrefix(s[i][1], s[j][1]) => i < j
    /\ \A i, j, k \in 1..Len(s) :
           (i < j /\ j < k) =>
               \A n \in 1..Len(s[i][1]) :
                   LET p == SubSeq(s[i][1], 1, n) IN
                   (IsPrefix(p, s[k][1]) => IsPrefix(p, s[j][1]))
\* lines 127-133, as the ids of the files
get_excel_files(tree) ==
    {s \in Perms({FileId(f) : f \in {g \in tree : IsExcelName(g.name)}}) :
        IsWalkOrder(s)}

\* ------------------------------------------------------------ process_files
KeyIdx(data, kato_code) ==
    FirstIdx(Len(data), [i \in 1..Len(data) |-> data[i].code = kato_code])
AppIdx(apps, app_title) ==
    FirstIdx(Len(apps), [i \in 1..Len(apps) |-> apps[i].app = app_title])
Keys(data) == {data[i].code : i \in 1..Len(data)}

\* line 201: self.kato_data[kato_root][app_title].append(entry); a key that
\* is new is added after the keys there are
AppendEntry(data, code, app_title, entry) ==
    LET d1 == IF KeyIdx(data, code) = 0
              THEN Append(data, [code |-> code, apps |-> <<>>])
              ELSE data
        i == KeyIdx(d1, code)
        a1 == IF AppIdx(d1[i].apps, app_title) = 0
              THEN Append(d1[i].apps, [app |-> app_title, entries |-> <<>>])
              ELSE d1[i].apps
        j == AppIdx(a1, app_title)
    IN [d1 EXCEPT ![i].apps = [a1 EXCEPT ![j].entries = Append(@, entry)]]

\* AddGroups without the test of lines 197-198
RECURSIVE AddGroupsNoDedup(_, _, _, _)
AddGroupsNoDedup(ex, basename, g, st) ==
    IF g > Len(ex.groups) THEN st
    ELSE LET group == ex.groups[g]
             entry_id == <<group.kato_root, ex.app_title, basename>>
         IN AddGroupsNoDedup(ex, basename, g + 1,
                [added_entries |-> st.added_entries \cup {entry_id},
                 kato_data |-> AppendEntry(st.kato_data, group.kato_root,
                                   ex.app_title,
                                   [title_row |-> ex.title_row,
                                    columns |-> ex.columns,
                                    rows |-> group.rows,
                                    basename |-> basename])])

\* lines 192-201, from group g on: st is [kato_data, added_entries].  An
\* entry is the tuple (title_row, df) of line 201, df being its columns and
\* rows; basename is history (the file the entry came from) that nothing reads.
RECURSIVE AddGroups(_, _, _, _)
AddGroups(ex, basename, g, st) ==
    IF g > Len(ex.groups) THEN st
    ELSE LET group == ex.groups[g]
             entry_id == <<group.kato_root, ex.app_title, basename>>
         IN IF entry_id \in st.added_entries
            THEN AddGroups(ex, basename, g + 1, st)
            ELSE AddGroups(ex, basename, g + 1,
                     [added_entries |-> st.added_entries \cup {entry_id},
                      kato_data |-> AppendEntry(st.kato_data, group.kato_root,
                                        ex.app_title,
                                        [title_row |-> ex.title_row,
                                         columns |-> ex.columns,
                                         rows |-> group.rows,
                                         basename |-> basename])])

EntriesOf(data, code, app_title) ==
    IF KeyIdx(data, code) = 0 THEN <<>>
    ELSE LET apps == data[KeyIdx(data, code)].apps IN
         IF AppIdx(apps, app_title) = 0 THEN <<>>
         ELSE apps[AppIdx(apps, app_title)].entries
Labels(data, code) ==
    IF KeyIdx(data, code) = 0 THEN {}
    ELSE LET apps == data[KeyIdx(data, code)].apps IN
         {apps[j].app : j \in 1..Len(apps)}
\* history: the entries of after that before does not have
NewEntries(before, after) ==
    UNION {UNION {{[code |-> code, app |-> app, pos |-> p,
                    entry |-> EntriesOf(after, code, app)[p]] :
                       p \in (Len(EntriesOf(before, code, app)) + 1)..
                             Len(EntriesOf(after, code, app))} :
                  app \in Labels(after, code)} :
           code \in Keys(after)}

\* lines 135-138
process_files ==
    /\ pc = "idle"
    /\ nprocess < MaxProcess
    /\ \E failed \in SUBSET KatoFolders(fs) :
           /\ fs' = AfterDelete(fs, failed)
           /\ all_excel_files' \in get_excel_files(AfterDelete(fs, failed))
    /\ file_i' = 1
    /\ nprocess' = nprocess + 1
    /\ handled' = <<>>
    /\ pc' = "process"
    /\ UNCHANGED <<runs, sorter, save_i, nsave, saved, prev_data, pure>>

\* ProcessFile with the try of line 144 around the loop instead of in it: an
\* exception ends the loop
ProcessFileAbort ==
    /\ pc = "process"
    /\ file_i <= Len(all_excel_files)
    /\ LET file == FileAt(fs, all_excel_files[file_i])
           ex == Extract(file)
           st == IF ex.outcome = "ok"
                 THEN AddGroups(ex, file.name, 1,
                          [kato_data |-> kato_data, added_entries |-> added_entries])
                 ELSE [kato_data |-> kato_data, added_entries |-> added_entries]
       IN /\ kato_data' = st.kato_data
          /\ added_entries' = st.added_entries
          /\ handled' = Append(handled,
                 [file |-> FileId(file), outcome |-> ex.outcome,
                  had |-> added_entries,
                  appended |-> NewEntries(kato_data, st.kato_data),
                  unchanged |-> (st.kato_data = kato_data
                                 /\ st.added_entries = added_entries)])
          /\ file_i' = IF ex.outcome = "error"
                       THEN Len(all_excel_files) + 1
                       ELSE file_i + 1
    /\ UNCHANGED <<fs, runs, pc, kato_skip_list, already_saved_kato,
                   all_excel_files, save_i, nprocess, nsave, saved, prev_data, pure>>

\* lines 140-206: one pass of the loop
ProcessFile ==
    /\ pc = "process"
    /\ file_i <= Len(all_excel_files)
    /\ LET file == FileAt(fs, all_excel_files[file_i])
           ex == Extract(file)
           st == IF ex.outcome = "ok"
                 THEN AddGroups(ex, file.name, 1,
                          [kato_data |-> kato_data, added_entries |-> added_entries])
                 ELSE [kato_data |-> kato_data, added_entries |-> added_entries]
       IN /\ kato_data' = st.kato_data
          /\ added_entries' = st.added_entries
          /\ handled' = Append(handled,
                 [file |-> FileId(file), outcome |-> ex.outcome,
                  had |-> added_entries,
                  appended |-> NewEntries(kato_data, st.kato_data),
                  unchanged |-> (st.kato_data = kato_data
                                 /\ st.added_entries = added_entries)])
    /\ file_i' = file_i + 1
    /\ UNCHANGED <<fs, runs, pc, kato_skip_list, already_saved_kato,
                   all_excel_files, save_i, nprocess, nsave, saved, prev_data, pure>>

\* the loop of line 140 is over: process_files returns
ProcessReturn ==
    /\ pc = "process"
    /\ file_i > Len(all_excel_files)
    /\ pc' = "idle"
    /\ UNCHANGED <<fs, runs, sorter, loops, nprocess, nsave, hist, pure>>

\* ---------------------------------------------------------- save_kato_files
\* line 220: sorted() keeps the order of items whose keys are equal
RECURSIVE SortedApps(_)
SortedApps(apps) ==
    IF apps = <<>> THEN <<>>
    ELSE LET n == Len(apps)
             x == apps[n]
             s == SortedApps(SubSeq(apps, 1, n - 1))
             m == Cardinality({i \in 1..Len(s) :
                      extract_app_number(s[i].app) <= extract_app_number(x.app)})
         IN SubSeq(s, 1, m) \o <<x>> \o SubSeq(s, m + 1, Len(s))

\* line 223: app_title[:31], counted in characters.  A label is the
\* ten-letter word, "-" and digits.
CharLen(tok) == IF tok = "Prilozhenie" THEN 10 ELSE 1
RECURSIVE TakeChars(_, _)
TakeChars(s, n) ==
    IF s = <<>> \/ CharLen(s[1]) > n THEN <<>>
    ELSE <<s[1]>> \o TakeChars(Tail(s), n - CharLen(s[1]))
SheetNameLen == 31

\* lines 226-242 for one (title_row, df) of the sheet ws.  ws.append adds a
\* row under the rows there are; "A1", "A2" and ws[3] are the first three
\* rows of the sheet.
AddEntry(ws, app_title, entry) ==
    LET n == Len(entry.columns)
        rows1 == ws.rows \o <<<<entry.title_row>>, <<app_title>>>>
        rows2 == Append(rows1, entry.columns)
        row3 == {<<3, c>> : c \in 1..Width(rows2)}
    IN [title |-> ws.title,
        rows |-> rows2 \o entry.rows,
        bold |-> ws.bold \cup {<<1, 1>>, <<2, 1>>} \cup row3,
        center |-> ws.center \cup row3,
        merged |-> ws.merged \cup {<<1, 1, n>>, <<2, 1, n>>}]

RECURSIVE AddEntries(_, _, _, _)
AddEntries(ws, app_title, entries, e) ==
    IF e > Len(entries) THEN ws
    ELSE AddEntries(AddEntry(ws, app_title, entries[e]), app_title, entries, e + 1)

\* lines 218-242: the workbook of one code
Workbook(app_dict) ==
    LET sorted_apps == SortedApps(app_dict) IN
    [s \in 1..Len(sorted_apps) |->
        AddEntries(Sheet(TakeChars(sorted_apps[s].app, SheetNameLen), <<>>),
                   sorted_apps[s].app, sorted_apps[s].entries, 1)]

\* lines 214-215 and 256-257: the folder and the name of the file of a code
OutputDir(kato_code) == <<output_dir, <<get_region_folder(kato_code)>>>>
OutputName(kato_code) == kato_code \o <<".", "xlsx">>

save_kato_files ==
    /\ pc = "idle"
    /\ nsave < MaxSave
    /\ nsave' = nsave + 1
    /\ save_i' = 1
    /\ pc' = "save"
    /\ UNCHANGED <<fs, runs, sorter, all_excel_files, file_i, nprocess, hist, pure>>

\* lines 209-260: one pass of the loop
SaveCode ==
    /\ pc = "save"
    /\ save_i <= Len(kato_data)
    /\ LET kato_code == kato_data[save_i].code
           out == [dir |-> OutputDir(kato_code), name |-> OutputName(kato_code),
                   ok |-> TRUE, book |-> Workbook(kato_data[save_i].apps)]
       IN IF kato_code \in kato_skip_list /\ kato_code \in already_saved_kato
          THEN UNCHANGED <<fs, already_saved_kato, saved>>
          ELSE /\ fs' = {f \in fs : FileId(f) # FileId(out)} \cup {out}
               /\ already_saved_kato' = already_saved_kato \cup {kato_code}
               /\ saved' = Append(saved, [call |-> nsave, code |-> kato_code,
                                          dir |-> out.dir, name |-> out.name])
    /\ save_i' = save_i + 1
    /\ UNCHANGED <<runs, pc, kato_data, kato_skip_list, added_entries,
                   all_excel_files, file_i, nprocess, nsave, handled, prev_data, pure>>

\* the loop of line 209 is over: save_kato_files returns
SaveReturn ==
    /\ pc = "save"
    /\ save_i > Len(kato_data)
    /\ pc' = "idle"
    /\ UNCHANGED <<fs, runs, sorter, loops, nprocess, nsave, hist, pure>>

\* ----------------------------------------------------------- specifications
\* One working directory and one sorter, whose methods are called in any
\* order.
Init ==
    /\ fs \in Trees
    /\ runs = 0
    /\ main_pc = 0
    /\ pc = "none"
    /\ NoSorter
    /\ columns = <<>>
    /\ new_columns = <<>>

New == runs = 0 /\ Construct /\ UNCHANGED main_pc
CallDelete == delete_kato_subfolders /\ UNCHANGED main_pc
CallProcess == process_files /\ UNCHANGED main_pc
CallSave == save_kato_files /\ UNCHANGED main_pc
StepFile == ProcessFile /\ UNCHANGED main_pc
StepCode == SaveCode /\ UNCHANGED main_pc
ReturnProcess == ProcessReturn /\ UNCHANGED main_pc
ReturnSave == SaveReturn /\ UNCHANGED main_pc

Next ==
    \/ New
    \/ CallDelete
    \/ CallProcess
    \/ StepFile
    \/ ReturnProcess
    \/ CallSave
    \/ StepCode
    \/ ReturnSave

Spec == Init /\ [][Next]_vars

\* main.py, run up to MaxRuns times in the same working directory: main_pc is
\* the line about to run, and 4 again once the script has ended.
MainInit ==
    /\ fs \in Trees
    /\ runs = 0
    /\ main_pc = 4
    /\ pc = "none"
    /\ NoSorter
    /\ columns = <<>>
    /\ new_columns = <<>>

MainLine4 == main_pc = 4 /\ Construct /\ main_pc' = 5
MainLine5 == main_pc = 5 /\ delete_kato_subfolders /\ main_pc' = 6
MainLine6 == main_pc = 6 /\ process_files /\ UNCHANGED main_pc
MainLine6Return == main_pc = 6 /\ ProcessReturn /\ main_pc' = 7
MainLine7 == main_pc = 7 /\ save_kato_files /\ UNCHANGED main_pc
MainLine7Return == main_pc = 7 /\ SaveReturn /\ main_pc' = 4

MainNext ==
    \/ MainLine4
    \/ MainLine5
    \/ MainLine6
    \/ StepFile
    \/ MainLine6Return
    \/ MainLine7
    \/ StepCode
    \/ MainLine7Return

SpecMain == MainInit /\ [][MainNext]_vars

\* make_unique_columns on its own, on every list of at most MaxCols names
ColumnNames ==
    {<<"A">>, <<"B">>, <<" ", "A">>, <<"A", "_", "1">>}
RECURSIVE Lists(_, _)
Lists(S, n) ==
    IF n = 0 THEN {<<>>}
    ELSE Lists(S, n - 1) \cup
         {Append(l, x) : l \in {m \in Lists(S, n - 1) : Len(m) = n - 1}, x \in S}

ColsInit ==
    /\ fs = {}
    /\ runs = 0
    /\ main_pc = 0
    /\ pc = "none"
    /\ NoSorter
    /\ columns \in Lists(ColumnNames, MaxCols)
    /\ new_columns = <<<<"?">>>>

CallMakeUnique ==
    /\ new_columns = <<<<"?">>>>
    /\ new_columns' = make_unique_columns(columns)
    /\ UNCHANGED <<fs, runs, main_pc, pc, sorter, loops, nprocess, nsave, hist, columns>>

ColsNext == CallMakeUnique

SpecCols == ColsInit /\ [][ColsNext]_vars

\* ==================================================================== claims
Called == new_columns # <<<<"?">>>>

\* C2 (as claimed): make_unique_columns returns, for every list of column
\* names, a list of the same length whose names are pairwise distinct, the
\* first occurrence of a stripped name kept and its k-th repeat suffixed _k;
\* [A, A, B, A] gives [A, A_1, B, A_2].
C2_AllDistinct ==
    Called =>
        /\ Len(new_columns) = Len(columns)
        /\ \A i, j \in 1..Len(new_columns) : i # j => new_columns[i] # new_columns[j]
        /\ \A i \in 1..Len(columns) :
               LET k == Cardinality({j \in 1..(i - 1) :
                            Strip(columns[j]) = Strip(columns[i])})
               IN new_columns[i] = IF k = 0 THEN Strip(columns[i])
                                   ELSE Strip(columns[i]) \o <<"_">> \o IntToStr(k)
        /\ (columns = <<<<"A">>, <<"A">>, <<"B">>, <<"A">>>> =>
               new_columns = <<<<"A">>, <<"A", "_", "1">>, <<"B">>, <<"A", "_", "2">>>>)

\* C1: after any sequence of process_files calls on one sorter, each triple
\* (code root, application label, base name) has contributed at most one
\* entry to kato_data[code root][application label]: the entries of a group
\* come from pairwise different base names, and they are the triples of
\* added_entries with that root and label, one entry for each.
C1_OneEntryPerTriple ==
    \A code \in Keys(kato_data) : \A app \in Labels(kato_data, code) :
        LET entries == EntriesOf(kato_data, code, app) IN
        /\ \A i, j \in 1..Len(entries) :
               i # j => entries[i].basename # entries[j].basename
        /\ {<<code, app, entries[i].basename>> : i \in 1..Len(entries)} =
               {e \in added_entries : e[1] = code /\ e[2] = app}

\* C1's case: process_files has run twice over the same files, and one group
\* holds the entries of two files with different base names.
C1_Witness ==
    /\ nprocess = 2
    /\ pc = "idle"
    /\ \E i \in 1..Len(handled) :
           /\ handled[i].outcome = "ok"
           /\ handled[i].unchanged
           /\ \E e \in added_entries : e[3] = handled[i].file[2]
    /\ \E code \in Keys(kato_data) : \E app \in Labels(kato_data, code) :
           Len(EntriesOf(kato_data, code, app)) = 2

\* C5 (as claimed): every key of kato_data is a string of exactly six decimal
\* digits.
C5_SixDigitKeys ==
    \A code \in Keys(kato_data) : Len(code) = 6 /\ isdigit(code)

\* The table of a file as lines 165 and 172 read it, its code column, and for
\* a row the code as line 188 leaves it.
TableOf(file) ==
    LET rows == file.book[1].rows IN
    IF header_idx(Preview(rows)) # 0
    THEN ReadSingleHeader(rows, header_idx(Preview(rows)))
    ELSE ReadMultiHeader(rows)
CodeOf(row, k) == Strip(str(row[k]))
\* the row as a group holds it
Stored(row, k) == [row EXCEPT ![k] = CodeOf(row, k)]
\* a row the claim excludes: the code missing, empty after stripping, or its
\* first six characters not all digits
Excluded(row, k) ==
    \/ row[k] = NaN
    \/ CodeOf(row, k) = <<>>
    \/ ~isdigit(Prefix(CodeOf(row, k), 6))
GroupsWith(appended, row, k) ==
    {g \in appended : \E j \in 1..Len(g.entry.rows) : g.entry.rows[j] = Stored(row, k)}
LabelOf(id) == AppTitle(extract_app_number(id[2]))

\* C3 (as claimed): of a file that process_files reads as far as its loop
\* over the groups, every row whose code is empty after stripping or missing,
\* or whose root is not all digits, appears in no group appended to
\* kato_data; every other row appears in exactly one, keyed by its root.
C3_EveryGoodRowPlaced ==
    pc = "process" =>
        \A i \in 1..Len(handled) :
            handled[i].outcome = "ok" =>
                LET df == TableOf(FileAt(fs, handled[i].file))
                    k == KatoCol(df.columns)
                IN \A r \in 1..Len(df.rows) :
                       LET in == GroupsWith(handled[i].appended, df.rows[r], k) IN
                       IF Excluded(df.rows[r], k)
                       THEN in = {}
                       ELSE /\ Cardinality(in) = 1
                            /\ \A g \in in : g.code = Prefix(CodeOf(df.rows[r], k), 6)

\* C3 (amended): ... every other row appears in exactly one group appended,
\* keyed by its root, unless the triple (root, application label, base name)
\* was in added_entries before the file, and then it appears in none.
C3_GoodRowPlacedUnlessSeen ==
    pc = "process" =>
        \A i \in 1..Len(handled) :
            handled[i].outcome = "ok" =>
                LET df == TableOf(FileAt(fs, handled[i].file))
                    k == KatoCol(df.columns)
                IN \A r \in 1..Len(df.rows) :
                       LET in == GroupsWith(handled[i].appended, df.rows[r], k)
                           root == Prefix(CodeOf(df.rows[r], k), 6)
                       IN IF Excluded(df.rows[r], k)
                             \/ <<root, LabelOf(handled[i].file), handled[i].file[2]>>
                                    \in handled[i].had
                          THEN in = {}
                          ELSE /\ Cardinality(in) = 1
                               /\ \A g \in in : g.code = root

\* C3's case: one file with an excluded row, a row placed in the group of its
\* root, and a row whose triple an earlier file of the same base name has used.
C3_Witness ==
    /\ pc = "process"
    /\ \E i \in 1..Len(handled) :
           /\ handled[i].outcome = "ok"
           /\ LET df == TableOf(FileAt(fs, handled[i].file))
                  k == KatoCol(df.columns)
              IN /\ \E r \in 1..Len(df.rows) : Excluded(df.rows[r], k)
                 /\ \E r \in 1..Len(df.rows) :
                        /\ ~Excluded(df.rows[r], k)
                        /\ GroupsWith(handled[i].appended, df.rows[r], k) # {}
                 /\ \E r \in 1..Len(df.rows) :
                        /\ ~Excluded(df.rows[r], k)
                        /\ <<Prefix(CodeOf(df.rows[r], k), 6), LabelOf(handled[i].file),
                             handled[i].file[2]>> \in handled[i].had

\* C4: a file without a recognisable code column, or whose processing raises,
\* leaves kato_data and added_entries as they were, and the loop goes on:
\* the files are handled one by one in the order of the list, and when
\* process_files returns every file of the list has been handled.
C4_BadFileChangesNothing ==
    /\ \A i \in 1..Len(handled) :
           handled[i].outcome \in {"nocol", "error"} => handled[i].unchanged
    /\ Len(handled) <= Len(all_excel_files)
    /\ \A i \in 1..Len(handled) : handled[i].file = all_excel_files[i]
    /\ pc = "process" => Len(handled) = file_i - 1
    /\ pc # "process" => Len(handled) = Len(all_excel_files)

\* C4's case: a file was skipped for want of a code column or for an
\* exception, and a later file of the list has added its groups.
C4_Witness ==
    \E i, j \in 1..Len(handled) :
        /\ i < j
        /\ handled[i].outcome \in {"nocol", "error"}
        /\ handled[j].outcome = "ok"
        /\ handled[j].appended # {}

\* the wb.save calls of the running call of save_kato_files for a code
SavesNow(kato_code) ==
    {n \in 1..Len(saved) : saved[n].call = nsave /\ saved[n].code = kato_code}
\* a code that line 210 passes over in the running call: on the skip list and
\* saved by an earlier call
PassedOver(kato_code) ==
    /\ kato_code \in kato_skip_list
    /\ \E n \in 1..Len(saved) : saved[n].call < nsave /\ saved[n].code = kato_code

\* C7: for every code of kato_data that is not skipped, save_kato_files
\* writes exactly one workbook, at <output_dir>/<region>/<code>.xlsx, the
\* region being the REGION_CODES entry of the code's first two characters
\* and the catch-all folder when there is none: a code that starts with 71
\* goes to the region of 71, a code that starts with 99 to the catch-all.
C7_OneWorkbookPerCode ==
    pc = "save" =>
        /\ \A i \in 1..(save_i - 1) :
               LET kato_code == kato_data[i].code
                   two == SubSeq(kato_code, 1, IF Len(kato_code) < 2 THEN Len(kato_code) ELSE 2)
                   region == IF \E p \in DOMAIN REGION_CODES : p = two
                             THEN REGION_CODES[two] ELSE "Prochee"
               IN ~PassedOver(kato_code) =>
                      /\ Cardinality(SavesNow(kato_code)) = 1
                      /\ \A n \in SavesNow(kato_code) :
                             /\ saved[n].dir = <<output_dir, <<region>>>>
                             /\ saved[n].name = kato_code \o <<".", "xlsx">>
                             /\ two = <<"7", "1">> => saved[n].dir[2] = <<"Astana">>
                             /\ two = <<"9", "9">> => saved[n].dir[2] = <<"Prochee">>
                             /\ \E f \in fs : f.ok /\ FileId(f) = <<saved[n].dir, saved[n].name>>
        /\ \A n \in 1..Len(saved) :
               saved[n].call = nsave =>
                   \E i \in 1..(save_i - 1) : kato_data[i].code = saved[n].code

\* C7's case: one call has written the workbook of a code of prefix 71 to the
\* folder of that region and the workbook of a code of prefix 99 to the
\* catch-all folder.
C7_Witness ==
    /\ pc = "save"
    /\ save_i > Len(kato_data)
    /\ \E n, m \in 1..Len(saved) :
           /\ saved[n].call = nsave /\ saved[m].call = nsave
           /\ saved[n].code = C711234 /\ saved[n].dir = <<output_dir, <<"Astana">>>>
           /\ saved[m].code = C991234 /\ saved[m].dir = <<output_dir, <<"Prochee">>>>

\* C6 (as claimed): over the calls of save_kato_files on one sorter, a code of
\* the skip list that is in kato_data is written once: its first save is done
\* and recorded, every later one is passed over.  kato_data holds the rows of
\* a code under the code's first six characters (line 190), so the workbook
\* of a code is the one of that key.
C6_SkipListedSavedOnce ==
    \A code \in kato_skip_list :
        Cardinality({n \in 1..Len(saved) : saved[n].code = Prefix(code, 6)}) <= 1

\* The workbook that the running call has written for kato_data[i].
Written(i) ==
    FileAt(fs, <<OutputDir(kato_data[i].code), OutputName(kato_data[i].code)>>)
Sentinel == AppTitle(9999)

\* C8 (as claimed): an output workbook has exactly one sheet per application
\* label of its code, the sheets in nondecreasing order of the number
\* extracted from the label, and the label of a file whose name carries no
\* number (9999) after every label that carries one.
C8_SentinelSheetLast ==
    pc = "save" =>
        \A i \in 1..(save_i - 1) :
            LET book == Written(i).book
                labels == Labels(kato_data, kato_data[i].code)
            IN /\ Len(book) = Cardinality(labels)
               /\ {book[s].title : s \in 1..Len(book)} = labels
               /\ \A s, u \in 1..Len(book) :
                      s < u => extract_app_number(book[s].title)
                                   <= extract_app_number(book[u].title)
               /\ \A s, u \in 1..Len(book) :
                      (book[s].title = Sentinel /\ book[u].title # Sentinel) => u < s

\* the rows of the sheet above entry e of entries
RECURSIVE RowsAbove(_, _)
RowsAbove(entries, e) ==
    IF e = 1 THEN 0
    ELSE RowsAbove(entries, e - 1) + 3 + Len(entries[e - 1].rows)

\* C9 (as claimed): in a sheet built by save_kato_files, for every (title,
\* body) pair, the first and every later one, the row of its title and the row
\* of its label are bold and merged across the body's columns, and the row of
\* its column headers is bold and centered.
C9_EveryPairFormatted ==
    pc = "save" =>
        \A i \in 1..(save_i - 1) :
            \A j \in 1..Len(kato_data[i].apps) :
                LET entries == kato_data[i].apps[j].entries
                    book == Written(i).book
                IN \A s \in 1..Len(book) :
                       book[s].title = kato_data[i].apps[j].app =>
                           \A e \in 1..Len(entries) :
                               LET top == RowsAbove(entries, e)
                                   n == Len(entries[e].columns)
                               IN /\ <<top + 1, 1>> \in book[s].bold
                                  /\ <<top + 1, 1, n>> \in book[s].merged
                                  /\ <<top + 2, 1>> \in book[s].bold
                                  /\ <<top + 2, 1, n>> \in book[s].merged
                                  /\ \A c \in 1..n :
                                         /\ <<top + 3, c>> \in book[s].bold
                                         /\ <<top + 3, c>> \in book[s].center

IsOutput(id) == id[1] # <<>> /\ id[1][1] = output_dir

\* C10 (as claimed): when main.py runs again in the same working directory,
\* discovery returns none of the workbooks that an earlier run wrote, and the
\* run adds no entry that comes from one.
C10_RerunIgnoresOutput ==
    runs >= 2 =>
        /\ \A k \in 1..Len(all_excel_files) : ~IsOutput(all_excel_files[k])
        /\ \A k \in 1..Len(handled) :
               IsOutput(handled[k].file) => handled[k].appended = {}

====
